---------------------------- MODULE Spec2Model ----------------------------
(***************************************************************************)
(* sensu-habitat-check (src/main.go, lines 1-245): checkArgs validates the  *)
(* plugin configuration, executeCheck enumerates the supervisor's services *)
(* (when no explicit list is configured), asks each service's health       *)
(* endpoint, and reduces the per-service states to one check state.        *)
(*                                                                         *)
(* Strings are sequences of Unicode code points, so that splitting,        *)
(* trimming, joining, quoting and case folding are computed as the Go      *)
(* library computes them.  A comment above each literal gives its text.    *)
(***************************************************************************)
EXTENDS Integers, Sequences, FiniteSets, TLC

(* Longest explicit service list, and longest enumeration listing. *)
MaxServices == 2
(* Longest list of Health values handed to the reduction in ReduceSpec. *)
MaxHealth == 4
(* Longest status field made of the letters of "ok" and a space in FoldSpec. *)
MaxNearOk == 3

---------------------------------------------------------------------------
(* sensu check states (sensu-plugin-sdk), as used in executeCheck. *)
CheckStateOK == 0
CheckStateWarning == 1
CheckStateCritical == 2
CheckStateUnknown == 3

(* resp.StatusCode == 200 *)
StatusOK == 200

(* Code points the library routines below test for. *)
CharDot == 46
CharPercent == 37
CharQuote == 34
RuneSelf == 128
CharLongS == 383
CharKelvin == 8490

(* '/' *)
SuffixSlash == <<47>>
(* '/services' *)
PathServices == <<47,115,101,114,118,105,99,101,115>>
(* '/services/' *)
PathServicesSlash == <<47,115,101,114,118,105,99,101,115,47>>
(* '/health' *)
PathHealth == <<47,104,101,97,108,116,104>>
(* ' WARNING\n' *)
FmtWarning == <<32,87,65,82,78,73,78,71,10>>
(* ' CRITICAL\n' *)
FmtCritical == <<32,67,82,73,84,73,67,65,76,10>>
(* ' UNKNOWN\n' *)
FmtUnknown == <<32,85,78,75,78,79,87,78,10>>
(* 'Error occured while checking service:\n' *)
FmtErrorOccured == <<69,114,114,111,114,32,111,99,99,117,114,101,100,32,119,104,105,108,101,32,99,104,101,99,107,105,110,103,32,115,101,114,118,105,99,101,58,10>>
(* '\n' *)
Newline == <<10>>
(* 'All health checks returning OK for loaded services' *)
MsgAllOK == <<65,108,108,32,104,101,97,108,116,104,32,99,104,101,99,107,115,32,114,101,116,117,114,110,105,110,103,32,79,75,32,102,111,114,32,108,111,97,100,101,100,32,115,101,114,118,105,99,101,115>>
(* 'No services loaded' *)
MsgNoServices == <<78,111,32,115,101,114,118,105,99,101,115,32,108,111,97,100,101,100>>
(* 'ok' *)
StrOk == <<111,107>>
(* 'warning' *)
StrWarning == <<119,97,114,110,105,110,103>>
(* 'critical' *)
StrCritical == <<99,114,105,116,105,99,97,108>>
(* 'unknown' *)
StrUnknown == <<117,110,107,110,111,119,110>>
(* 'could not retrieve services: ' *)
ErrRetrieve == <<99,111,117,108,100,32,110,111,116,32,114,101,116,114,105,101,118,101,32,115,101,114,118,105,99,101,115,58,32>>
(* 'failed to decode service response: ' *)
ErrDecodeServices == <<102,97,105,108,101,100,32,116,111,32,100,101,99,111,100,101,32,115,101,114,118,105,99,101,32,114,101,115,112,111,110,115,101,58,32>>
(* 'failed to decode health response: ' *)
ErrDecodeHealth == <<102,97,105,108,101,100,32,116,111,32,100,101,99,111,100,101,32,104,101,97,108,116,104,32,114,101,115,112,111,110,115,101,58,32>>
(* '--service ' *)
ErrServicePrefix == <<45,45,115,101,114,118,105,99,101,32>>
(* ' value malformed should be "service_name.service_group"' *)
ErrServiceSuffix == <<32,118,97,108,117,101,32,109,97,108,102,111,114,109,101,100,32,115,104,111,117,108,100,32,98,101,32,34,115,101,114,118,105,99,101,95,110,97,109,101,46,115,101,114,118,105,99,101,95,103,114,111,117,112,34>>
(* 'failed to parse supervisor URL ' *)
ErrParseURL == <<102,97,105,108,101,100,32,116,111,32,112,97,114,115,101,32,115,117,112,101,114,118,105,115,111,114,32,85,82,76,32>>
(* ': ' *)
ColonSpace == <<58,32>>
(* ' ' *)
Space == <<32>>
(* 'parse' *)
UrlOpParse == <<112,97,114,115,101>>
(* 'Get' *)
UrlOpGet == <<71,101,116>>
(* 'invalid URL escape ' *)
UrlEscapeError == <<105,110,118,97,108,105,100,32,85,82,76,32,101,115,99,97,112,101,32>>
(* 'EOF' *)
IoEOF == <<69,79,70>>
(* 'connection refused' *)
ConnRefused == <<99,111,110,110,101,99,116,105,111,110,32,114,101,102,117,115,101,100>>

---------------------------------------------------------------------------
(* Go error values: nil, or an error with its message. *)
NilErr == [nil |-> TRUE, msg |-> <<>>]
NewErr(m) == [nil |-> FALSE, msg |-> m]

(* strconv.Quote (the %q verb) of a string of printable ASCII without
   quotes or backslashes: the string between double quotes. *)
Quote(s) == <<CharQuote>> \o s \o <<CharQuote>>

(* strings.Index(s, sep) for a one-character sep: the first position of sep
   in s (from 1), or 0 when s does not hold it. *)
Index(s, c) ==
  IF \E i \in 1..Len(s) : s[i] = c
  THEN CHOOSE i \in 1..Len(s) : s[i] = c /\ \A j \in 1..(i - 1) : s[j] # c
  ELSE 0

(* strings.SplitN(s, sep, n) for n > 0 and a one-character sep: at most n
   substrings, the last one the unsplit remainder. *)
RECURSIVE SplitN(_, _, _)
SplitN(s, c, n) ==
  IF n = 1 \/ Index(s, c) = 0
  THEN <<s>>
  ELSE <<SubSeq(s, 1, Index(s, c) - 1)>>
         \o SplitN(SubSeq(s, Index(s, c) + 1, Len(s)), c, n - 1)

(* strings.HasSuffix and strings.TrimSuffix. *)
HasSuffix(s, suffix) ==
  /\ Len(s) >= Len(suffix)
  /\ SubSeq(s, Len(s) - Len(suffix) + 1, Len(s)) = suffix

TrimSuffix(s, suffix) ==
  IF HasSuffix(s, suffix) THEN SubSeq(s, 1, Len(s) - Len(suffix)) ELSE s

(* unicode.SimpleFold on ASCII, U+017F (long s) and U+212A (Kelvin sign):
   the next code point of r's case-folding orbit. *)
SimpleFold(r) ==
  CASE r = 75 -> 107
    [] r = 107 -> CharKelvin
    [] r = CharKelvin -> 75
    [] r = 83 -> 115
    [] r = 115 -> CharLongS
    [] r = CharLongS -> 83
    [] r \in 65..90 -> r + 32
    [] r \in 97..122 -> r - 32
    [] OTHER -> r

(* The inner loop of strings.EqualFold: walk sr's orbit until it comes back
   to sr or reaches a code point that is not below tr. *)
RECURSIVE FoldUpTo(_, _, _)
FoldUpTo(r, sr, tr) ==
  IF r # sr /\ r < tr THEN FoldUpTo(SimpleFold(r), sr, tr) ELSE r

(* One rune pair of strings.EqualFold. *)
RuneEqualFold(s, t) ==
  LET sr == IF t < s THEN t ELSE s
      tr == IF t < s THEN s ELSE t
  IN  IF tr = sr THEN TRUE
      ELSE IF tr < RuneSelf
      THEN 65 <= sr /\ sr <= 90 /\ tr = sr + 32
      ELSE FoldUpTo(SimpleFold(sr), sr, tr) = tr

(* A faulty variant of EqualFold: a case-sensitive comparison. *)
EqualFoldExact(s, t) == s = t

(* strings.EqualFold(s, t) *)
EqualFold(s, t) ==
  /\ Len(s) = Len(t)
  /\ \A i \in 1..Len(s) : RuneEqualFold(s[i], t[i])


(* ishex of net/url. *)
ishex(c) == c \in 48..57 \/ c \in 97..102 \/ c \in 65..70

(* The scan of net/url's unescape: the position (from 1) of the first '%'
   from i on that is not followed by two hex digits, 0 when there is none.
   A well-formed escape is skipped whole. *)
RECURSIVE BadEscapeFrom(_, _)
BadEscapeFrom(s, i) ==
  IF i > Len(s) THEN 0
  ELSE IF s[i] # CharPercent THEN BadEscapeFrom(s, i + 1)
  ELSE IF i + 2 > Len(s) \/ ~ishex(s[i + 1]) \/ ~ishex(s[i + 2]) THEN i
  ELSE BadEscapeFrom(s, i + 3)

(* url.Parse(rawURL), its error only, for a URL of printable ASCII with a
   scheme, a plain host name and no '?' or '#': the path must unescape.
   The error is *url.Error{Op: "parse", URL: rawURL, Err: EscapeError}. *)
UrlParse(rawURL) ==
  LET i == BadEscapeFrom(rawURL, 1)
      j == IF i + 2 <= Len(rawURL) THEN i + 2 ELSE Len(rawURL)
  IN  IF i = 0 THEN NilErr
      ELSE NewErr(UrlOpParse \o Space \o Quote(rawURL) \o ColonSpace
                    \o UrlEscapeError \o Quote(SubSeq(rawURL, i, j)))

(* http.NewRequest("GET", url, nil): fails exactly when url.Parse does,
   and returns its error. *)
NewRequest(url) == UrlParse(url)

(* The error client.Do returns when the transport fails with `cause`:
   *url.Error{Op: "Get", URL: url, Err: cause}. *)
DoError(url, cause) ==
  NewErr(UrlOpGet \o Space \o Quote(url) \o ColonSpace \o cause)

---------------------------------------------------------------------------
(* The Health struct. *)
Health(sg, st, e) == [ServiceGroup |-> sg, Status |-> st, Error |-> e]

(* What a function returned: (code, err). *)
Return(by, code, e) == [by |-> by, code |-> code, err |-> e]
NoReturn == [by |-> "", code |-> 0, err |-> NilErr]

(* A faulty variant of getSupervisorUrl: the slash is kept. *)
getSupervisorUrlUntrimmed(url) == url

(* getSupervisorUrl: the configured URL without a trailing slash. *)
getSupervisorUrl(url) == TrimSuffix(url, SuffixSlash)

(* The URL getAllServices requests. *)
servicesUrl(url) == getSupervisorUrl(url) \o PathServices

(* The URL checkService requests, from the two parts of the identifier. *)
healthUrl(url, serviceSplit) ==
  getSupervisorUrl(url) \o PathServicesSlash \o serviceSplit[1]
    \o SuffixSlash \o serviceSplit[2] \o PathHealth

(* The loop of checkArgs over plugin.Services: the first identifier that
   does not split in two on '.', as a one-element sequence, or <<>>. *)
RECURSIVE firstMalformed(_)
firstMalformed(svcs) ==
  IF svcs = <<>> THEN <<>>
  ELSE IF Len(SplitN(Head(svcs), CharDot, 2)) # 2 THEN <<Head(svcs)>>
  ELSE firstMalformed(Tail(svcs))

(* checkArgs *)
checkArgs(svcs, url) ==
  LET bad == firstMalformed(svcs)
      perr == UrlParse(url)
  IN  IF bad # <<>>
      THEN Return("checkArgs", CheckStateWarning,
                  NewErr(ErrServicePrefix \o Quote(bad[1]) \o ErrServiceSuffix))
      ELSE IF ~perr.nil
      THEN Return("checkArgs", CheckStateWarning,
                  NewErr(ErrParseURL \o url \o ColonSpace \o perr.msg))
      ELSE Return("checkArgs", CheckStateOK, NilErr)

---------------------------------------------------------------------------
(* What the supervisor answers to one request, as client.Do and the JSON
   decoder see it: ok is FALSE when client.Do returns an error (cause);
   otherwise StatusCode and the body.  A body is empty (the decoder fails
   with io.EOF) or a JSON document: for /services an array of objects whose
   "service_group" may be missing (hasGroup), for a health endpoint an
   object whose "status" may be missing (hasStatus). *)
Entry(hasGroup, sg) == [hasGroup |-> hasGroup, service_group |-> sg]
Body(empty, hasStatus, status, entries) ==
  [empty |-> empty, hasStatus |-> hasStatus, status |-> status,
   entries |-> entries]
EmptyBody == Body(TRUE, FALSE, <<>>, <<>>)
HealthBody(hasStatus, status) == Body(FALSE, hasStatus, status, <<>>)
ServicesBody(entries) == Body(FALSE, FALSE, <<>>, entries)
Failed(cause) ==
  [ok |-> FALSE, cause |-> cause, StatusCode |-> 0, body |-> EmptyBody]
Response(code, body) ==
  [ok |-> TRUE, cause |-> <<>>, StatusCode |-> code, body |-> body]
NoResponse == Failed(<<>>)

(* json.NewDecoder(resp.Body).Decode(&services) and the copy loop of
   getAllServices: a missing service_group decodes to "". *)
decodeServices(body) ==
  IF body.empty
  THEN [result |-> <<>>, err |-> NewErr(ErrDecodeServices \o IoEOF)]
  ELSE [result |-> [i \in 1..Len(body.entries) |->
                      IF body.entries[i].hasGroup
                      THEN body.entries[i].service_group ELSE <<>>],
        err |-> NilErr]

(* A faulty variant of getAllServices: a client.Do error is dropped. *)
getAllServicesIgnoreError(url, r) ==
  IF ~r.ok THEN [result |-> <<>>, err |-> NilErr] ELSE decodeServices(r.body)

(* getAllServices from client.Do on: the status code is not looked at. *)
getAllServices(url, r) ==
  IF ~r.ok
  THEN [result |-> <<>>, err |-> DoError(url, r.cause)]
  ELSE decodeServices(r.body)

(* The EqualFold chain of checkService; result.Status starts as Unknown. *)
statusOf(status) ==
  IF EqualFold(status, StrOk) THEN CheckStateOK
  ELSE IF EqualFold(status, StrWarning) THEN CheckStateWarning
  ELSE IF EqualFold(status, StrCritical) THEN CheckStateCritical
  ELSE IF EqualFold(status, StrUnknown) THEN CheckStateUnknown
  ELSE CheckStateUnknown

(* checkService from client.Do on. *)
checkServiceResponse(service, url, r) ==
  IF ~r.ok THEN Health(service, CheckStateUnknown, DoError(url, r.cause))
  ELSE IF r.StatusCode = StatusOK
  THEN IF r.body.empty
       THEN Health(service, CheckStateUnknown,
                   NewErr(ErrDecodeHealth \o IoEOF))
       ELSE Health(service,
                   statusOf(IF r.body.hasStatus THEN r.body.status ELSE <<>>),
                   NilErr)
  ELSE Health(service, CheckStateUnknown, NilErr)

(* A faulty variant of appendHealth: an error discards the result, as
   the earlier checkServices (return nil, err) did. *)
appendHealthOrAbort(result, h) ==
  IF h.Error.nil THEN Append(result, h) ELSE <<>>

(* result = append(result, health) in checkServices. *)
appendHealth(result, h) == Append(result, h)

(* A faulty variant of statusLine: every Health prints an UNKNOWN line. *)
statusLineAlways(h) == <<h.ServiceGroup \o FmtUnknown>>

(* The switch of the reduction loop: what one Health prints. *)
statusLine(h) ==
  CASE h.Status = CheckStateWarning -> <<h.ServiceGroup \o FmtWarning>>
    [] h.Status = CheckStateCritical -> <<h.ServiceGroup \o FmtCritical>>
    [] h.Status = CheckStateUnknown -> <<h.ServiceGroup \o FmtUnknown>>
    [] OTHER -> <<>>

errorLine(h) ==
  IF h.Error.nil THEN <<>>
  ELSE <<FmtErrorOccured \o h.Error.msg \o Newline>>

(* The counters and output of the reduction loop. *)
Counters(oks, warnings, criticals, unknowns, found, out) ==
  [oks |-> oks, warnings |-> warnings, criticals |-> criticals,
   unknowns |-> unknowns, found |-> found, out |-> out]

loopBody(acc, h) ==
  Counters(acc.oks + (IF h.Status = CheckStateOK THEN 1 ELSE 0),
           acc.warnings + (IF h.Status = CheckStateWarning THEN 1 ELSE 0),
           acc.criticals + (IF h.Status = CheckStateCritical THEN 1 ELSE 0),
           acc.unknowns + (IF h.Status = CheckStateUnknown THEN 1 ELSE 0),
           TRUE,
           acc.out \o statusLine(h) \o errorLine(h))

RECURSIVE reduceLoop(_, _)
reduceLoop(acc, hs) ==
  IF hs = <<>> THEN acc ELSE reduceLoop(loopBody(acc, Head(hs)), Tail(hs))

(* A faulty variant of aggregate: unknowns are not counted as critical. *)
aggregateIgnoringUnknown(acc) ==
  IF acc.criticals > 0 THEN CheckStateCritical
  ELSE IF acc.warnings > 0 THEN CheckStateWarning
  ELSE CheckStateOK

(* A faulty variant of aggregate: unknowns alone are returned as UNKNOWN. *)
aggregatePassingUnknown(acc) ==
  IF acc.criticals > 0 THEN CheckStateCritical
  ELSE IF acc.unknowns > 0 THEN CheckStateUnknown
  ELSE IF acc.warnings > 0 THEN CheckStateWarning
  ELSE CheckStateOK

(* The precedence of executeCheck's return. *)
aggregate(acc) ==
  IF acc.criticals > 0 \/ acc.unknowns > 0 THEN CheckStateCritical
  ELSE IF acc.warnings > 0 THEN CheckStateWarning
  ELSE CheckStateOK

(* A faulty variant of summary: found is not looked at. *)
summaryAlwaysAllOK(acc) == MsgAllOK

(* The summary printed before returning OK. *)
summary(acc) == IF acc.found THEN MsgAllOK ELSE MsgNoServices

(* executeCheck from the reduction on: what it prints and returns. *)
reduce(hs) ==
  LET acc == reduceLoop(Counters(0, 0, 0, 0, FALSE, <<>>), hs)
      code == aggregate(acc)
  IN  [out |-> IF code = CheckStateOK THEN Append(acc.out, summary(acc))
               ELSE acc.out,
       ret |-> Return("executeCheck", code, NilErr)]

---------------------------------------------------------------------------
(* The configurations and supervisor answers the model runs on. *)

(* 'http://h' *)
UrlPlain == <<104,116,116,112,58,47,47,104>>
(* 'http://h/' *)
UrlSlash == <<104,116,116,112,58,47,47,104,47>>
(* 'http://h//' *)
UrlTwoSlashes == <<104,116,116,112,58,47,47,104,47,47>>
(* 'http://h/%' : url.Parse fails *)
UrlBadEscape == <<104,116,116,112,58,47,47,104,47,37>>
SupervisorURLs == {UrlPlain, UrlSlash, UrlTwoSlashes, UrlBadEscape}

(* 'a.b' *)
IdAB == <<97,46,98>>
(* 'c.d.e' *)
IdCDE == <<99,46,100,46,101>>
(* 'a.' *)
IdEmptyGroup == <<97,46>>
(* '.b' *)
IdEmptyName == <<46,98>>
(* 'a' *)
IdNoDot == <<97>>
(* '' *)
IdEmpty == <<>>
(* 'a.%' : the health URL does not parse *)
IdBadEscape == <<97,46,37>>
ServiceIds ==
  {IdAB, IdCDE, IdEmptyGroup, IdEmptyName, IdNoDot, IdEmpty, IdBadEscape}

(* 'WARNING' *)
StrWARNING == <<87,65,82,78,73,78,71>>
(* 'Critical' *)
StrCriticalTitle == <<67,114,105,116,105,99,97,108>>
SeqsUpTo(S, n) == UNION {[1..k -> S] : k \in 0..n}

(* Answers of a health endpoint. *)
HealthResponses ==
  { Failed(ConnRefused),
    Response(404, HealthBody(TRUE, StrOk)),
    Response(StatusOK, EmptyBody),
    Response(StatusOK, HealthBody(FALSE, <<>>)),
    Response(StatusOK, HealthBody(TRUE, StrOk)),
    Response(StatusOK, HealthBody(TRUE, StrWARNING)),
    Response(StatusOK, HealthBody(TRUE, StrCriticalTitle)),
    Response(StatusOK, HealthBody(TRUE, StrUnknown)) }

(* Answers of /services. *)
ServicesEntries ==
  {Entry(TRUE, id) : id \in ServiceIds} \cup {Entry(FALSE, <<>>)}
ServicesResponses ==
  {Failed(ConnRefused), Response(StatusOK, EmptyBody)}
    \cup {Response(code, ServicesBody(es)) :
            code \in {StatusOK, 404}, es \in SeqsUpTo(ServicesEntries, MaxServices)}

---------------------------------------------------------------------------
VARIABLES
  SupervisorURL,  \* plugin.SupervisorURL
  Services,       \* plugin.Services
  pc,             \* where the run is
  services,       \* executeCheck's services
  idx,            \* position of checkServices' range loop (from 1)
  health,         \* checkServices' result
  resp,           \* the answer client.Do returned last
  requests,       \* the URLs client.Do was called with, in order
  completed,      \* how many of these calls have returned
  stdout,         \* what fmt.Printf has written, one element per call
  ret             \* what checkArgs (on error) or executeCheck returned

vars == <<SupervisorURL, Services, pc, services, idx, health, resp, requests,
          completed, stdout, ret>>

Init ==
  /\ SupervisorURL \in SupervisorURLs
  /\ Services \in SeqsUpTo(ServiceIds, MaxServices)
  /\ pc = "checkArgs"
  /\ services = <<>>
  /\ idx = 1
  /\ health = <<>>
  /\ resp = NoResponse
  /\ requests = <<>>
  /\ completed = 0
  /\ stdout = <<>>
  /\ ret = NoReturn

(* main: the plugin framework calls checkArgs and, when it returns no
   error, executeCheck. *)
CheckArgs ==
  /\ pc = "checkArgs"
  /\ LET r == checkArgs(Services, SupervisorURL)
     IN  IF r.err.nil
         THEN pc' = "executeCheck" /\ ret' = ret
         ELSE pc' = "done" /\ ret' = r
  /\ UNCHANGED <<SupervisorURL, Services, services, idx, health, resp,
                 requests, completed, stdout>>

(* if len(services) == 0 *)
needsEnumeration(svcs) == Len(svcs) = 0

(* executeCheck up to its first blocking call: with no explicit list,
   getAllServices up to client.Do. *)
ExecuteCheck ==
  /\ pc = "executeCheck"
  /\ services' = Services
  /\ IF needsEnumeration(Services)
     THEN LET url == servicesUrl(SupervisorURL)
              e == NewRequest(url)
          IN  IF e.nil
              THEN /\ requests' = Append(requests, url)
                   /\ pc' = "getAllServices"
                   /\ ret' = ret
              ELSE /\ requests' = requests
                   /\ pc' = "done"
                   /\ ret' = Return("executeCheck", CheckStateCritical,
                                    NewErr(ErrRetrieve \o e.msg))
     ELSE /\ requests' = requests
          /\ pc' = "checkServices"
          /\ ret' = ret
  /\ UNCHANGED <<SupervisorURL, Services, idx, health, resp, completed,
                 stdout>>

(* client.Do of getAllServices returns; the rest of getAllServices and
   executeCheck's error check. *)
GetAllServicesResponse ==
  \E r \in ServicesResponses :
    /\ pc = "getAllServices"
    /\ resp' = r
    /\ completed' = completed + 1
    /\ LET g == getAllServices(requests[Len(requests)], r)
       IN  IF g.err.nil
           THEN /\ services' = g.result
                /\ pc' = "checkServices"
                /\ ret' = ret
           ELSE /\ services' = services
                /\ pc' = "done"
                /\ ret' = Return("executeCheck", CheckStateCritical,
                                 NewErr(ErrRetrieve \o g.err.msg))
    /\ UNCHANGED <<SupervisorURL, Services, idx, health, requests, stdout>>

(* A faulty variant of nextIndex: a service whose check failed is checked
   again. *)
nextIndexRetry(i, h) == IF h.Error.nil THEN i + 1 ELSE i

(* for _, service := range services: the step to the next service. *)
nextIndex(i, h) == i + 1

(* One iteration of checkServices up to client.Do in checkService.  An
   identifier with no '.' makes serviceSplit[1] an index out of range: the
   run panics.  A URL that does not parse is that service's error. *)
CheckService ==
  /\ pc = "checkServices"
  /\ idx <= Len(services)
  /\ LET service == services[idx]
         serviceSplit == SplitN(service, CharDot, 2)
     IN  IF Len(serviceSplit) < 2
         THEN /\ pc' = "panic"
              /\ UNCHANGED <<health, idx, requests>>
         ELSE LET url == healthUrl(SupervisorURL, serviceSplit)
                  e == NewRequest(url)
                  h == Health(service, CheckStateUnknown, e)
              IN  IF e.nil
                  THEN /\ requests' = Append(requests, url)
                       /\ pc' = "checkService"
                       /\ UNCHANGED <<health, idx>>
                  ELSE /\ health' = appendHealth(health, h)
                       /\ idx' = nextIndex(idx, h)
                       /\ pc' = "checkServices"
                       /\ requests' = requests
  /\ UNCHANGED <<SupervisorURL, Services, services, resp, completed, stdout,
                 ret>>

(* client.Do of checkService returns r; the rest of checkService and the
   append of checkServices. *)
CheckServiceResponse(R) ==
  \E r \in R :
    /\ pc = "checkService"
    /\ resp' = r
    /\ completed' = completed + 1
    /\ LET h == checkServiceResponse(services[idx],
                                       requests[Len(requests)], r)
       IN  /\ health' = appendHealth(health, h)
           /\ idx' = nextIndex(idx, h)
    /\ pc' = "checkServices"
    /\ UNCHANGED <<SupervisorURL, Services, services, requests, stdout, ret>>

HealthResponse == CheckServiceResponse(HealthResponses)

(* checkServices has returned: the reduction, the summary and the return
   of executeCheck. *)
ExecuteCheckReduce ==
  /\ pc = "checkServices"
  /\ idx > Len(services)
  /\ stdout' = stdout \o reduce(health).out
  /\ ret' = reduce(health).ret
  /\ pc' = "done"
  /\ UNCHANGED <<SupervisorURL, Services, services, idx, health, resp,
                 requests, completed>>

Next ==
  \/ CheckArgs
  \/ ExecuteCheck
  \/ GetAllServicesResponse
  \/ CheckService
  \/ HealthResponse
  \/ ExecuteCheckReduce

Spec == Init /\ [][Next]_vars

---------------------------------------------------------------------------
(* The reduction of executeCheck on every list of Health values of up to
   MaxHealth services: the state in which checkServices has just returned
   for an explicit list of that many services. *)
answerFor(st) ==
  CASE st = CheckStateOK -> Response(StatusOK, HealthBody(TRUE, StrOk))
    [] st = CheckStateWarning -> Response(StatusOK, HealthBody(TRUE, StrWARNING))
    [] st = CheckStateCritical ->
         Response(StatusOK, HealthBody(TRUE, StrCriticalTitle))
    [] OTHER -> Response(404, HealthBody(TRUE, StrOk))

ReduceInit ==
  /\ SupervisorURL = UrlPlain
  /\ \E sts \in SeqsUpTo(CheckStateOK..CheckStateUnknown, MaxHealth) :
       /\ Services = [i \in 1..Len(sts) |-> IdAB]
       /\ health = [i \in 1..Len(sts) |-> Health(IdAB, sts[i], NilErr)]
       /\ resp = IF sts = <<>> THEN Response(StatusOK, ServicesBody(<<>>))
                ELSE answerFor(sts[Len(sts)])
  /\ services = Services
  /\ idx = Len(Services) + 1
  /\ requests = IF Services = <<>> THEN <<servicesUrl(UrlPlain)>>
                ELSE [i \in 1..Len(Services) |->
                        healthUrl(UrlPlain, SplitN(IdAB, CharDot, 2))]
  /\ completed = Len(requests)
  /\ pc = "checkServices"
  /\ stdout = <<>>
  /\ ret = NoReturn

ReduceNext == ExecuteCheckReduce

ReduceSpec == ReduceInit /\ [][ReduceNext]_vars

---------------------------------------------------------------------------
(* checkService's mapping of the status field, on every casing of the four
   status words and on fields that are none of them: the state in which the
   health request for one explicit service is in flight. *)

(* 'okay' *)
StrOkay == <<111,107,97,121>>
(* 'warn' *)
StrWarn == <<119,97,114,110>>
(* 'healthy' *)
StrHealthy == <<104,101,97,108,116,104,121>>
(* 'ok.' *)
StrOkDot == <<111,107,46>>

(* The letters a JSON string can hold for the lower-case ASCII letter c:
   c, its capital and, for k, the Kelvin sign. *)
Casings1(c) == {c, c - 32} \cup (IF c = 107 THEN {CharKelvin} ELSE {})

RECURSIVE Casings(_)
Casings(w) ==
  IF w = <<>> THEN {<<>>}
  ELSE {<<c>> \o rest : c \in Casings1(Head(w)), rest \in Casings(Tail(w))}

(* o, O, k, K, the Kelvin sign and the space *)
NearOkRunes == {111, 79, 107, 75, CharKelvin, 32}

StatusFields ==
  Casings(StrOk) \cup Casings(StrWarning) \cup Casings(StrCritical)
    \cup Casings(StrUnknown) \cup SeqsUpTo(NearOkRunes, MaxNearOk)
    \cup {StrOkay, StrWarn, StrHealthy, StrOkDot}

FoldResponses ==
  {Response(StatusOK, HealthBody(TRUE, f)) : f \in StatusFields}
    \cup {Response(StatusOK, HealthBody(FALSE, <<>>))}

FoldInit ==
  /\ SupervisorURL = UrlPlain
  /\ Services = <<IdAB>>
  /\ services = Services
  /\ pc = "checkService"
  /\ idx = 1
  /\ health = <<>>
  /\ resp = NoResponse
  /\ requests = <<healthUrl(UrlPlain, SplitN(IdAB, CharDot, 2))>>
  /\ completed = 0
  /\ stdout = <<>>
  /\ ret = NoReturn

FoldNext == CheckServiceResponse(FoldResponses) \/ ExecuteCheckReduce

FoldSpec == FoldInit /\ [][FoldNext]_vars

---------------------------------------------------------------------------
(* C1: the aggregate the reduction of executeCheck returns is CRITICAL when
   some Health value is CRITICAL or UNKNOWN, otherwise WARNING when some
   value is WARNING, otherwise OK: a function of the set of values that
   occur, whatever their order and number. *)
StatusesOf(hs) == {hs[i].Status : i \in 1..Len(hs)}

ExpectedAggregate(S) ==
  IF CheckStateCritical \in S \/ CheckStateUnknown \in S
  THEN CheckStateCritical
  ELSE IF CheckStateWarning \in S THEN CheckStateWarning
  ELSE CheckStateOK

Reduced == pc = "done" /\ ret.by = "executeCheck" /\ ret.err.nil

C1_Aggregate ==
  Reduced => ret.code = ExpectedAggregate(StatusesOf(health))

(* An UNKNOWN first, then OK and WARNING values: the aggregate is CRITICAL. *)
C1_Witness ==
  /\ Reduced
  /\ Len(health) = 4
  /\ health[1].Status = CheckStateUnknown
  /\ health[2].Status = CheckStateOK
  /\ health[3].Status = CheckStateWarning
  /\ health[4].Status = CheckStateOK
  /\ ret.code = CheckStateCritical

---------------------------------------------------------------------------
(* C2: when executeCheck returns OK it has printed exactly one summary:
   "No services loaded" exactly when no service was checked, "All health
   checks returning OK for loaded services" exactly when some were and all
   are OK; when it returns WARNING or CRITICAL it has printed neither. *)
Count(seq, x) == Cardinality({i \in 1..Len(seq) : seq[i] = x})

C2_Summary ==
  (pc = "done" /\ ret.by = "executeCheck") =>
    IF ret.code = CheckStateOK
    THEN /\ Count(stdout, MsgNoServices) + Count(stdout, MsgAllOK) = 1
         /\ Count(stdout, MsgNoServices) = 1 <=> services = <<>>
         /\ Count(stdout, MsgAllOK) = 1 <=>
              /\ services # <<>>
              /\ Len(health) = Len(services)
              /\ \A i \in 1..Len(health) : health[i].Status = CheckStateOK
    ELSE Count(stdout, MsgNoServices) = 0 /\ Count(stdout, MsgAllOK) = 0

(* The enumeration answered with an empty array. *)
C2_Witness ==
  /\ pc = "done"
  /\ ret = Return("executeCheck", CheckStateOK, NilErr)
  /\ Services = <<>>
  /\ resp = Response(StatusOK, ServicesBody(<<>>))
  /\ stdout = <<MsgNoServices>>

---------------------------------------------------------------------------
(* C3: when some configured identifier is not exactly two non-empty parts
   around exactly one '.', checkArgs returns WARNING with an error and the
   run issues no HTTP request. *)
Dots(s) == {i \in 1..Len(s) : s[i] = CharDot}

WellFormedId(s) ==
  /\ Cardinality(Dots(s)) = 1
  /\ s[1] # CharDot
  /\ s[Len(s)] # CharDot

C3_MalformedRejected ==
  (/\ pc # "checkArgs"
   /\ \E i \in 1..Len(Services) : ~WellFormedId(Services[i])) =>
    /\ pc = "done"
    /\ ret.by = "checkArgs"
    /\ ret.code = CheckStateWarning
    /\ ~ret.err.nil
    /\ requests = <<>>

---------------------------------------------------------------------------
(* C4: a health check that fails (client.Do error, a status code other than
   200, an undecodable body, or a request that could not be built) makes
   that service's Health UNKNOWN and the run goes on with the next service:
   every check adds one Health for the service asked about and leaves the
   earlier ones as they were; at every point there is one Health per
   service checked so far, in input order, and when checkServices has
   returned there is one per input service. *)
IsFailure(r) == ~r.ok \/ r.StatusCode # StatusOK \/ r.body.empty

C4_OnePerService ==
  /\ Len(health) = idx - 1
  /\ \A i \in 1..Len(health) : health[i].ServiceGroup = services[i]
  /\ (pc = "done" /\ ret.by = "executeCheck" /\ ret.err.nil) =>
       Len(health) = Len(services)

C4_AnswerStep ==
  health' # health =>
    /\ Len(health') = Len(health) + 1
    /\ SubSeq(health', 1, Len(health)) = health
    /\ health'[Len(health')].ServiceGroup = services[idx]
    /\ pc' = "checkServices"
    /\ idx' = idx + 1
    /\ ret' = ret
    /\ (pc = "checkServices" \/ IsFailure(resp')) =>
         health'[Len(health')].Status = CheckStateUnknown

C4_FailureIsLocal == []C4_OnePerService /\ [][C4_AnswerStep]_vars

(* The first service's request failed, the second service is OK. *)
C4_Witness ==
  /\ pc = "done"
  /\ Len(health) = 2
  /\ health[1].Status = CheckStateUnknown
  /\ ~health[1].Error.nil
  /\ health[2].Status = CheckStateOK
  /\ health[2].Error.nil

---------------------------------------------------------------------------
(* C5: with no explicit list, a failed enumeration (client.Do error or an
   undecodable body) ends executeCheck with CRITICAL and an error, with no
   health request issued and nothing printed. *)
EnumerationFailed ==
  /\ Services = <<>>
  /\ Len(requests) = 1
  /\ completed = 1
  /\ ~resp.ok \/ resp.body.empty

C5_EnumerationFatal ==
  EnumerationFailed =>
    /\ pc = "done"
    /\ ret.by = "executeCheck"
    /\ ret.code = CheckStateCritical
    /\ ~ret.err.nil
    /\ health = <<>>
    /\ stdout = <<>>

(* The body of the /services answer could not be decoded. *)
C5_Witness ==
  /\ EnumerationFailed
  /\ resp = Response(StatusOK, EmptyBody)
  /\ pc = "done"
  /\ ret.code = CheckStateCritical

---------------------------------------------------------------------------
(* C6: for a 200 answer whose body decodes, the Health status is the status
   field read without regard to case: OK for a casing of "ok", WARNING for
   one of "warning", CRITICAL for one of "critical", UNKNOWN for one of
   "unknown", and UNKNOWN for every other field, a missing or empty one
   included. *)
Lower(c) ==
  IF c \in 65..90 THEN c + 32 ELSE IF c = CharKelvin THEN 107 ELSE c

LowerCased(f) == [i \in 1..Len(f) |-> Lower(f[i])]

ExpectedStatus(f) ==
  CASE LowerCased(f) = StrOk -> CheckStateOK
    [] LowerCased(f) = StrWarning -> CheckStateWarning
    [] LowerCased(f) = StrCritical -> CheckStateCritical
    [] OTHER -> CheckStateUnknown

StatusField(r) == IF r.body.hasStatus THEN r.body.status ELSE <<>>

C6_StatusMapping ==
  (/\ Len(services) = 1
   /\ Len(health) = 1
   /\ completed = 1
   /\ resp.ok /\ resp.StatusCode = StatusOK /\ ~resp.body.empty) =>
    health[1].Status = ExpectedStatus(StatusField(resp))

(* 'WaRnInG' is WARNING. *)
C6_Witness ==
  /\ Len(health) = 1
  /\ resp = Response(StatusOK, HealthBody(TRUE, <<87,97,82,110,73,110,71>>))
  /\ health[1].Status = CheckStateWarning

---------------------------------------------------------------------------
(* C7: when executeCheck has run the reduction, its output holds, in the
   order the services were checked, one line "<service group> <STATUS>" for
   each service whose status is not OK, STATUS being the word of that
   service's own status, and no such line for a service that is OK. *)
HasPrefix(s, prefix) ==
  Len(s) >= Len(prefix) /\ SubSeq(s, 1, Len(prefix)) = prefix

(* 'CRITICAL' *)
WordCritical == <<67,82,73,84,73,67,65,76>>
(* 'UNKNOWN' *)
WordUnknown == <<85,78,75,78,79,87,78>>

StatusWord(st) ==
  CASE st = CheckStateWarning -> StrWARNING
    [] st = CheckStateCritical -> WordCritical
    [] st = CheckStateUnknown -> WordUnknown

RECURSIVE ExpectedLines(_)
ExpectedLines(hs) ==
  IF hs = <<>> THEN <<>>
  ELSE (IF Head(hs).Status = CheckStateOK THEN <<>>
        ELSE <<Head(hs).ServiceGroup \o <<32>> \o StatusWord(Head(hs).Status)
                 \o <<10>>>>)
         \o ExpectedLines(Tail(hs))

IsStatusLine(l) ==
  /\ ~HasPrefix(l, FmtErrorOccured)
  /\ l # MsgAllOK
  /\ l # MsgNoServices

C7_StatusLines ==
  Reduced =>
    /\ Len(health) = Len(services)
    /\ SelectSeq(stdout, IsStatusLine) = ExpectedLines(health)

(* One WARNING service and one OK service: one line, for the first. *)
C7_Witness ==
  /\ Reduced
  /\ Len(health) = 2
  /\ health[1].Status = CheckStateWarning
  /\ health[2].Status = CheckStateOK
  /\ stdout = <<health[1].ServiceGroup \o <<32>> \o StrWARNING \o <<10>>>>

---------------------------------------------------------------------------
(* C8 as stated: for every supervisor URL that ends with '/', no requested
   URL has an empty path segment where the base and "/services" meet. *)
Contains(s, part) ==
  \E k \in 0..(Len(s) - Len(part)) : SubSeq(s, k + 1, k + Len(part)) = part

(* '//services' *)
EmptySegmentAtJoin == <<47,47,115,101,114,118,105,99,101,115>>
(* 'services' *)
WordServices == <<115,101,114,118,105,99,101,115>>

C8_AnyTrailingSlash ==
  HasSuffix(SupervisorURL, <<47>>) =>
    \A i \in 1..Len(requests) : ~Contains(requests[i], EmptySegmentAtJoin)

(* C8: for every supervisor URL that ends with exactly one '/', every
   requested URL is the configured URL, its one slash kept as the separator,
   followed by "services": the base and "/services" meet in exactly one '/'. *)
EndsWithOneSlash(u) == HasSuffix(u, <<47>>) /\ ~HasSuffix(u, <<47,47>>)

C8_OneTrailingSlash ==
  EndsWithOneSlash(SupervisorURL) =>
    \A i \in 1..Len(requests) :
      /\ HasPrefix(requests[i], SupervisorURL \o WordServices)
      /\ ~Contains(requests[i], EmptySegmentAtJoin)

(* 'http://h/': the enumeration and a health request have been issued. *)
C8_Witness ==
  /\ EndsWithOneSlash(SupervisorURL)
  /\ Services = <<>>
  /\ Len(requests) = 2
  /\ requests[1] = SupervisorURL \o WordServices
  /\ requests[2] = SupervisorURL \o WordServices \o <<47,97,47,98>> \o PathHealth

---------------------------------------------------------------------------
(* C9 as stated: a run that reaches the reduction has issued the
   enumeration request exactly when the explicit list is empty, and then
   exactly one health request per service to check, in list order. *)
EnumerationRequest ==
  IF Services = <<>> THEN <<servicesUrl(SupervisorURL)>> ELSE <<>>

C9_OnePerService ==
  Reduced =>
    requests = EnumerationRequest
                 \o [i \in 1..Len(services) |->
                       healthUrl(SupervisorURL, SplitN(services[i], CharDot, 2))]

(* C9: the requests issued are the enumeration request, exactly when the
   explicit list is empty, followed in list order by one health request for
   each service the loop has reached whose request could be built, and none
   for a service whose health URL does not parse; a request is issued only
   when every earlier one has returned, none is issued twice, and none is
   for a service that is not in the list to check. *)
Buildable(s) ==
  /\ Len(SplitN(s, CharDot, 2)) = 2
  /\ NewRequest(healthUrl(SupervisorURL, SplitN(s, CharDot, 2))).nil

RECURSIVE HealthRequestsFor(_)
HealthRequestsFor(svcs) ==
  IF svcs = <<>> THEN <<>>
  ELSE (IF Buildable(Head(svcs))
        THEN <<healthUrl(SupervisorURL, SplitN(Head(svcs), CharDot, 2))>>
        ELSE <<>>)
         \o HealthRequestsFor(Tail(svcs))

InExecuteCheck ==
  \/ pc \in {"getAllServices", "checkServices", "checkService", "panic"}
  \/ pc = "done" /\ ret.by = "executeCheck"

Reached == IF pc = "checkService" THEN idx ELSE idx - 1

C9_Requests ==
  /\ requests =
       (IF InExecuteCheck THEN EnumerationRequest ELSE <<>>)
         \o HealthRequestsFor(SubSeq(services, 1, Reached))
  /\ completed =
       Len(requests) - (IF pc \in {"getAllServices", "checkService"} THEN 1 ELSE 0)
  /\ Reduced => Reached = Len(services)

C9_IssueStep ==
  requests' # requests =>
    /\ completed = Len(requests)
    /\ Len(requests') = Len(requests) + 1
    /\ SubSeq(requests', 1, Len(requests)) = requests

C9_Sequential == []C9_Requests /\ [][C9_IssueStep]_vars

(* Enumerated services, the first one's request failed: three requests,
   none repeated. *)
C9_Witness ==
  /\ Reduced
  /\ Services = <<>>
  /\ Len(services) = 2
  /\ Len(requests) = 3
  /\ completed = 3
  /\ ~health[1].Error.nil

---------------------------------------------------------------------------
(* C10: every identifier checkService is called with splits in two on its
   first '.', so serviceSplit[1] is in range and executeCheck returns,
   also for the identifiers of an enumeration answer. *)
C10_SplitInRange ==
  /\ pc # "panic"
  /\ (pc = "checkServices" /\ idx <= Len(services)) =>
       Len(SplitN(services[idx], CharDot, 2)) = 2

---------------------------------------------------------------------------
(* C11: whatever executeCheck returns, its code is OK, WARNING or CRITICAL,
   never UNKNOWN; its error is non-nil exactly when the enumeration failed,
   and then the code is CRITICAL; a service whose health check failed
   leaves the returned error nil. *)
ExecuteCheckReturned == pc = "done" /\ ret.by = "executeCheck"

C11_ReturnValues ==
  ExecuteCheckReturned =>
    /\ ret.code \in {CheckStateOK, CheckStateWarning, CheckStateCritical}
    /\ ~ret.err.nil <=> EnumerationFailed
    /\ ~ret.err.nil => ret.code = CheckStateCritical
    /\ (\E i \in 1..Len(health) : ~health[i].Error.nil) => ret.err.nil

(* Two explicit services, both UNKNOWN, the second with an undecodable
   body: CRITICAL with a nil error. *)
C11_Witness ==
  /\ ExecuteCheckReturned
  /\ Len(Services) = 2
  /\ Len(health) = 2
  /\ health[1].Status = CheckStateUnknown
  /\ health[2].Status = CheckStateUnknown
  /\ resp = Response(StatusOK, EmptyBody)
  /\ ~health[2].Error.nil
  /\ ret = Return("executeCheck", CheckStateCritical, NilErr)

=============================================================================
